---------------------------- MODULE Spec2Model ----------------------------
(***************************************************************************)
(* PyInputPlus: the prompt / read / validate / retry loop _genericInput    *)
(* and its helper _checkLimitAndTimeout, version 0.2.3                     *)
(* (src/src/pyinputplus/__init__.py).                                      *)
(*                                                                         *)
(* One call of _genericInput is a sequential process; its position is pc.  *)
(* The environment is the wall clock (now, read by time.time()) and the    *)
(* user, who supplies one line per input() call.                           *)
(*                                                                         *)
(* Python values are tagged records: a string is [t |-> "str", s |-> the   *)
(* sequence of its characters], None is tagged "None"; numbers and         *)
(* functions likewise.                                                     *)
(***************************************************************************)
EXTENDS Integers, Sequences, FiniteSets

----------------------------------------------------------------------------
(* Bounds of the model *)

\* the clock runs over 0 .. MaxClock
MaxClock == 3
\* timeout is None or an int in -1 .. MaxTimeout
MaxTimeout == 1
\* limit is None or an int in -1 .. MaxLimit
MaxLimit == 2
\* no read is started once tries has reached MaxTries (limit None never stops)
MaxTries == 3

----------------------------------------------------------------------------
(* Python values *)

None == [t |-> "None", s |-> <<>>]
Str(s) == [t |-> "str", s |-> s]
NoneNum == [t |-> "None", n |-> 0]
IntVal(n) == [t |-> "int", n |-> n]
NoneFunc == [t |-> "None", f |-> "None"]
Func(f) == [t |-> "func", f |-> f]
\* a class used as a function, such as str
Class(f) == [t |-> "type", f |-> f]

\* the lower-case letters the model uses, and their upper-case forms
LowerLetters == << "a", "b", "e", "l", "n", "o", "r", "s", "u", "y" >>
UpperLetters == << "A", "B", "E", "L", "N", "O", "R", "S", "U", "Y" >>

\* str.upper on one character
UpperChar(c) ==
    IF \E i \in DOMAIN LowerLetters : LowerLetters[i] = c
    THEN UpperLetters[CHOOSE i \in DOMAIN LowerLetters : LowerLetters[i] = c]
    ELSE c

\* str.upper(s)
Upper(s) == [i \in 1 .. Len(s) |-> UpperChar(s[i])]

\* str.lstrip(): drop leading whitespace
RECURSIVE LStrip(_)
LStrip(s) == IF s # <<>> /\ Head(s) = " " THEN LStrip(Tail(s)) ELSE s

\* str.rstrip(): drop trailing whitespace
RECURSIVE RStrip(_)
RStrip(s) ==
    IF s # <<>> /\ s[Len(s)] = " " THEN RStrip(SubSeq(s, 1, Len(s) - 1)) ELSE s

\* str.strip()
Strip(s) == RStrip(LStrip(s))

\* the decimal digits and their values
DigitVal(c) == CASE c = "2" -> 2 [] c = "3" -> 3 [] OTHER -> -1

\* float(s): [ok, n]; float() strips whitespace and raises ValueError on a
\* string that is no number
RECURSIVE DigitsVal(_)
DigitsVal(s) ==
    IF s = <<>> THEN 0
    ELSE 10 * DigitsVal(SubSeq(s, 1, Len(s) - 1)) + DigitVal(s[Len(s)])

Float(s) ==
    LET x == Strip(s) IN
    IF x # <<>> /\ \A i \in 1 .. Len(x) : DigitVal(x[i]) >= 0
    THEN [ok |-> TRUE, n |-> DigitsVal(x)]
    ELSE [ok |-> FALSE, n |-> 0]

----------------------------------------------------------------------------
(* The functions a caller passes *)

\* A transform (applyFunc, postValidateApplyFunc) applied to a value:
\* [raised, value].  str.upper raises TypeError on a value that is no str.
CallTransform(func, v) ==
    IF func.f = "upper"
    THEN IF v.t = "str" THEN [raised |-> FALSE, value |-> Str(Upper(v.s))]
                        ELSE [raised |-> TRUE, value |-> None]
    ELSE [raised |-> FALSE, value |-> v]

\* inputStr's validationFunc, pysv._prevalidationCheck(value, blank=False,
\* strip=None, ...)[1]: strips, rejects a blank value, returns the stripped
\* value
ValidateStr(v) ==
    LET x == Strip(v.s) IN
    IF x = <<>>
    THEN [ok |-> FALSE, value |-> None, msg |-> "Blank values are not allowed."]
    ELSE [ok |-> TRUE, value |-> Str(x), msg |-> ""]

\* inputStr's validationFunc with blockRegexes=['[A-Z]+']: as ValidateStr,
\* and a value holding an upper-case letter is rejected
ValidateBlockUpper(v) ==
    LET x == Strip(v.s) IN
    IF x = <<>>
    THEN [ok |-> FALSE, value |-> None, msg |-> "Blank values are not allowed."]
    ELSE IF \E i \in 1 .. Len(x) : x[i] = "A"
    THEN [ok |-> FALSE, value |-> None, msg |-> "This response is invalid."]
    ELSE [ok |-> TRUE, value |-> Str(x), msg |-> ""]

\* the test suite's isEven: raises unless float(value) is even, and returns
\* nothing (None)
ValidateIsEven(v) ==
    LET x == Float(v.s) IN
    IF ~x.ok
    THEN [ok |-> FALSE, value |-> None, msg |-> "could not convert string to float"]
    ELSE IF x.n % 2 # 0
    THEN [ok |-> FALSE, value |-> None, msg |-> "This is not an even value."]
    ELSE [ok |-> TRUE, value |-> None, msg |-> ""]

\* pysv.validateNum(value, _numType=numType) as inputInt ("int") and
\* inputFloat ("float") use it: strips, rejects a blank value and a value
\* that is no number, returns the number
ValidateNum(v, numType) ==
    LET x == Strip(v.s) IN
    IF x = <<>>
    THEN [ok |-> FALSE, value |-> None, msg |-> "Blank values are not allowed."]
    ELSE IF ~Float(x).ok
    THEN [ok |-> FALSE, value |-> None, msg |-> "is not a number."]
    ELSE [ok |-> TRUE, value |-> [t |-> numType, s |-> x], msg |-> ""]

\* the index of the first entry of the sequence seq that is x, 0 if none
IndexOf(seq, x) ==
    IF \E i \in DOMAIN seq : seq[i] = x
    THEN CHOOSE i \in DOMAIN seq : seq[i] = x /\ \A j \in 1 .. i - 1 : seq[j] # x
    ELSE 0

\* pysv.validateChoice(value, choices, numbered=False, lettered=False,
\* caseSensitive): strips, rejects a blank value, returns the entry of
\* choices the value is (caseSensitive) or is up to letter case (otherwise),
\* and raises "... is not a valid choice." when there is none
ValidateChoice(v, choices, caseSensitive_) ==
    LET x == Strip(v.s)
        i == IF caseSensitive_ THEN IndexOf(choices, x)
             ELSE IndexOf([k \in DOMAIN choices |-> Upper(choices[k])], Upper(x))
    IN
    IF x = <<>>
    THEN [ok |-> FALSE, value |-> None, msg |-> "Blank values are not allowed."]
    ELSE IF i = 0
    THEN [ok |-> FALSE, value |-> None, msg |-> "is not a valid choice."]
    ELSE [ok |-> TRUE, value |-> Str(choices[i]), msg |-> ""]

\* str.isdigit() and int(): the number a string of digits stands for, -1
\* for any other string
DigitString(x) ==
    IF x # <<>> /\ \A i \in 1 .. Len(x) : DigitVal(x[i]) >= 0
    THEN DigitsVal(x) ELSE -1

\* variant: the number of an option is looked for before the option itself
ValidateChoiceNumbered_NumberFirst(v, choices, caseSensitive_) ==
    LET x == Strip(v.s)
        n == DigitString(x)
    IN
    IF x = <<>>
    THEN [ok |-> FALSE, value |-> None, msg |-> "Blank values are not allowed."]
    ELSE IF 0 < n /\ n <= Len(choices)
    THEN [ok |-> TRUE, value |-> Str(choices[n]), msg |-> ""]
    ELSE IF IndexOf(choices, x) # 0
    THEN [ok |-> TRUE, value |-> Str(x), msg |-> ""]
    ELSE ValidateChoice(v, choices, caseSensitive_)

\* pysv.validateChoice(value, choices, numbered=True, lettered=False,
\* caseSensitive): an entry of choices is returned as it is; otherwise the
\* number n of an option (1 .. len(choices)) gives choices[n - 1]; otherwise
\* as with numbered=False
ValidateChoiceNumbered(v, choices, caseSensitive_) ==
    LET x == Strip(v.s)
        n == DigitString(x)
    IN
    IF x = <<>>
    THEN [ok |-> FALSE, value |-> None, msg |-> "Blank values are not allowed."]
    ELSE IF IndexOf(choices, x) # 0
    THEN [ok |-> TRUE, value |-> Str(x), msg |-> ""]
    ELSE IF 0 < n /\ n <= Len(choices)
    THEN [ok |-> TRUE, value |-> Str(choices[n]), msg |-> ""]
    ELSE ValidateChoice(v, choices, caseSensitive_)

\* pysv.validateYesNo(value, yesVal, noVal, caseSensitive): strips, rejects a
\* blank value, returns yesVal for yesVal or its first letter, noVal for
\* noVal or its first letter (up to letter case unless caseSensitive), and
\* raises otherwise
ValidateYesNo(v, yesVal, noVal, caseSensitive_) ==
    LET x == Strip(v.s)
        y == IF caseSensitive_ THEN x ELSE Upper(x)
        Norm(w) == IF caseSensitive_ THEN w ELSE Upper(w)
    IN
    IF x = <<>>
    THEN [ok |-> FALSE, value |-> None, msg |-> "Blank values are not allowed."]
    ELSE IF y \in { Norm(yesVal), Norm(<<yesVal[1]>>) }
    THEN [ok |-> TRUE, value |-> Str(yesVal), msg |-> ""]
    ELSE IF y \in { Norm(noVal), Norm(<<noVal[1]>>) }
    THEN [ok |-> TRUE, value |-> Str(noVal), msg |-> ""]
    ELSE [ok |-> FALSE, value |-> None, msg |-> "is not a valid yes/no response."]

\* the strings 'yes', 'no', 'True', 'False'
YesVal == << "y", "e", "s" >>
NoVal == << "n", "o" >>
TrueVal == << "T", "r", "u", "e" >>
FalseVal == << "F", "a", "l", "s", "e" >>

\* the bool values
BoolVal(b) == [t |-> "bool", s |-> IF b THEN TrueVal ELSE FalseVal]

\* pysv.validateBool(value, caseSensitive): validateYesNo with 'True' and
\* 'False', returning the bool
ValidateBool(v, caseSensitive_) ==
    LET r == ValidateYesNo(v, TrueVal, FalseVal, caseSensitive_) IN
    IF r.ok
    THEN [ok |-> TRUE, value |-> BoolVal(r.value.s = TrueVal), msg |-> ""]
    ELSE r

\* the choices argument of inputChoice and inputMenu: ['a', 'b']
Choices == << <<"a">>, <<"b">> >>

\* the choices argument of inputMenu when numbered=True: ['a', '3', 'b']
NumberedChoices == << <<"a">>, <<"3">>, <<"b">> >>

\* validationFunc(v): [ok, value, msg]; ok = FALSE is a raised exception
\* whose message is msg
CallValidation(func, v) ==
    CASE func.f = "str" -> ValidateStr(v)
      [] func.f = "blockUpper" -> ValidateBlockUpper(v)
      [] func.f = "isEven" -> ValidateIsEven(v)
      [] func.f = "int" -> ValidateNum(v, "int")
      [] func.f = "float" -> ValidateNum(v, "float")
      [] func.f = "choice" -> ValidateChoice(v, Choices, FALSE)
      [] func.f = "choiceCaseSensitive" -> ValidateChoice(v, Choices, TRUE)
      [] func.f = "choiceNumbered" ->
           ValidateChoiceNumbered(v, NumberedChoices, FALSE)
      [] func.f = "choiceNumberedCaseSensitive" ->
           ValidateChoiceNumbered(v, NumberedChoices, TRUE)
      [] func.f = "yesNo" -> ValidateYesNo(v, YesVal, NoVal, FALSE)
      [] func.f = "yesNoCaseSensitive" -> ValidateYesNo(v, YesVal, NoVal, TRUE)
      [] func.f = "trueFalse" -> ValidateYesNo(v, TrueVal, FalseVal, FALSE)
      [] func.f = "class str" -> [ok |-> TRUE, value |-> v, msg |-> ""]
      [] OTHER -> ValidateYesNo(v, TrueVal, FalseVal, TRUE)

----------------------------------------------------------------------------
(* Inputs of the model *)

\* the lines the user may type
Lines == { <<>>, <<" ", "a">>, <<"A">>, <<"2">>, <<"3">> }

\* Each argument's values: the well-typed ones, and one value the isinstance
\* checks reject (an int prompt, an int default, a str timeout, a float
\* limit, validationFunc left at its default None, a str as a transform).
Prompts == { [t |-> "str", s |-> "Prompt>"], [t |-> "int", s |-> "1"] }
Defaults == { None, Str(<<>>), Str(<<"a">>), [t |-> "int", s |-> <<"2">>] }
Timeouts == { NoneNum, [t |-> "str", n |-> 0] }
                \cup { IntVal(n) : n \in -1 .. MaxTimeout }
Limits == { NoneNum, [t |-> "float", n |-> 1] }
              \cup { IntVal(n) : n \in -1 .. MaxLimit }
ApplyFuncs == { NoneFunc, Func("upper"), [t |-> "str", f |-> "upper"] }
ValidationFuncs == { Func("str"), Func("blockUpper"), Func("isEven"), NoneFunc }
PostValidateApplyFuncs ==
    { NoneFunc, Func("upper"), [t |-> "str", f |-> "upper"] }

----------------------------------------------------------------------------
VARIABLES
    \* the public function called ("none": _genericInput is called directly)
    \* and the arguments it takes besides those it hands to _genericInput
    wrapper, caseSensitive, numbered, wrapperPostValidateApplyFunc,
    \* how the public function ended
    wrapperOutcome, wrapperResult,
    \* the arguments of the call of _genericInput
    prompt, default, timeout, limit, applyFunc, validationFunc,
    postValidateApplyFunc,
    \* the wall clock, what time.time() returns
    now,
    \* the call: position, locals, standard output, and how it ended
    pc, startTime, tries, userInput, exc, out, outcome, result,
    \* observations of the call (not read by the code)
    rawLine, validated, checkTime, exitLine, postCalls, failures, reads,
    \* what the user will type and when each check will run, if fixed ahead
    script,
    \* the calls of _genericInput completed before this one, and how the
    \* last of them ended
    calls, prev,
    \* a call of the _genericInput of version 0.1.0 (src/pyinputplus)
    legacy

args == << wrapper, caseSensitive, numbered, wrapperPostValidateApplyFunc, prompt,
           default, timeout, limit, applyFunc, validationFunc,
           postValidateApplyFunc >>
wrap == << wrapperOutcome, wrapperResult >>
obs == << rawLine, validated, checkTime, exitLine, postCalls, failures,
         reads >>
outside == << script, calls, prev, legacy >>
vars == << args, wrap, now, pc, startTime, tries, userInput, exc, out, outcome,
           result, obs, outside >>

----------------------------------------------------------------------------
(* _checkLimitAndTimeout *)

\* variant: the timeout compared with <= (elapsed = timeout gives up)
TimedOut_NonStrict(startTime_, timeout_, time) ==
    timeout_.t # "None" /\ startTime_ + timeout_.n <= time

\* startTime + timeout < time.time(), guarded by timeout is not None
TimedOut(startTime_, timeout_, time) ==
    timeout_.t # "None" /\ startTime_ + timeout_.n < time

\* variant: the limit compared with > (one more read than limit)
LimitReached_Strict(tries_, limit_) ==
    limit_.t # "None" /\ tries_ > limit_.n

\* variant: the limit reached one read early
LimitReached_OffByOne(tries_, limit_) ==
    limit_.t # "None" /\ tries_ + 1 >= limit_.n

\* variant: the limit compared with = (a limit below 1 is never reached)
LimitReached_OnlyEqual(tries_, limit_) ==
    limit_.t # "None" /\ tries_ = limit_.n

\* variant: without the "limit is not None" guard, None counting as 0
LimitReached_NoneIsZero(tries_, limit_) ==
    tries_ >= limit_.n

\* tries >= limit, guarded by limit is not None
LimitReached(tries_, limit_) ==
    limit_.t # "None" /\ tries_ >= limit_.n

\* variant: the limit is looked at before the timeout
_checkLimitAndTimeout_LimitFirst(startTime_, timeout_, tries_, limit_, time) ==
    IF LimitReached(tries_, limit_) THEN "RetryLimitException"
    ELSE IF TimedOut(startTime_, timeout_, time) THEN "TimeoutException"
    ELSE "None"

\* variant: the timeout is not looked at after a failed validation
_checkLimitAndTimeout_IgnoresTimeout(startTime_, timeout_, tries_, limit_, time) ==
    IF LimitReached(tries_, limit_) THEN "RetryLimitException" ELSE "None"

\* the exception returned ("None" when neither applies); time is the value
\* time.time() returns during the call
_checkLimitAndTimeout(startTime_, timeout_, tries_, limit_, time) ==
    IF TimedOut(startTime_, timeout_, time) THEN "TimeoutException"
    ELSE IF LimitReached(tries_, limit_) THEN "RetryLimitException"
    ELSE "None"

----------------------------------------------------------------------------
(* _genericInput *)

\* variant: the check of limit is missing
ArgsWellTyped_NoLimitCheck ==
    /\ prompt.t = "str"
    /\ default.t \in {"str", "None"}
    /\ timeout.t \in {"int", "float", "None"}
    /\ validationFunc.t \in {"func", "type"}
    /\ applyFunc.t \in {"func", "None", "type"}
    /\ postValidateApplyFunc.t \in {"func", "None", "type"}

\* the isinstance checks on the arguments
ArgsWellTyped ==
    /\ prompt.t = "str"
    /\ default.t \in {"str", "None"}
    /\ timeout.t \in {"int", "float", "None"}
    /\ limit.t \in {"int", "None"}
    /\ validationFunc.t \in {"func", "type"}
    /\ applyFunc.t \in {"func", "None", "type"}
    /\ postValidateApplyFunc.t \in {"func", "None", "type"}

\* the line of the raise statement of the first argument check that fails
BadArgLine ==
    IF prompt.t # "str" THEN 103
    ELSE IF default.t \notin {"str", "None"} THEN 105
    ELSE IF timeout.t \notin {"int", "float", "None"} THEN 107
    ELSE IF limit.t \notin {"int", "None"} THEN 109
    ELSE IF validationFunc.t \notin {"func", "type"} THEN 111
    ELSE IF applyFunc.t \notin {"func", "None", "type"} THEN 113
    ELSE 115

\* the state of a call before it has acted
Entry ==
    /\ now = 0
    /\ pc = "start"
    /\ startTime = 0
    /\ tries = 0
    /\ userInput = None
    /\ exc = ""
    /\ out = <<>>
    /\ outcome = "none"
    /\ result = None
    /\ wrapperOutcome = "none"
    /\ wrapperResult = None
    /\ rawLine = <<>>
    /\ validated = [ok |-> FALSE, value |-> None, msg |-> ""]
    /\ checkTime = 0
    /\ exitLine = 0
    /\ postCalls = 0
    /\ failures = 0
    /\ reads = 0

\* the state of a call of version 0.1.0 before it has acted
LegacyEntry ==
    [pc |-> "start", startTime |-> 0, tries |-> 0, userInput |-> None,
     exc |-> "", checkResult |-> None, out |-> <<>>, outcome |-> "none",
     result |-> None, validated |-> FALSE, checkTime |-> 0, exitLine |-> 0]

\* how a call ended: outcome, returned value and output
NoPrev == [outcome |-> "none", result |-> None, out |-> <<>>]

\* one call of version 0.2.3 on its own: a free user and clock, no call
\* before it, version 0.1.0 not called
Alone ==
    /\ script = <<>>
    /\ calls = 0
    /\ prev = NoPrev
    /\ legacy = LegacyEntry

\* a direct call of _genericInput
Init ==
    /\ Alone
    /\ wrapper = "none"
    /\ caseSensitive = FALSE
    /\ numbered = FALSE
    /\ wrapperPostValidateApplyFunc = NoneFunc
    /\ prompt \in Prompts
    /\ default \in Defaults
    /\ timeout \in Timeouts
    /\ limit \in Limits
    /\ applyFunc \in ApplyFuncs
    /\ validationFunc \in ValidationFuncs
    /\ postValidateApplyFunc \in PostValidateApplyFuncs
    /\ Entry

\* variant: the timeout interrupts a pending read
Tick_Preemptive ==
    /\ pc \notin {"done", "returned"}
    /\ now < MaxClock
    /\ now' = now + 1
    /\ IF pc = "input" /\ TimedOut(startTime, timeout, now + 1)
       THEN /\ pc' = "done"
            /\ outcome' = "TimeoutException"
            /\ exitLine' = 162
            /\ checkTime' = now + 1
       ELSE UNCHANGED << pc, outcome, exitLine, checkTime >>
    /\ UNCHANGED << args, outside, wrap, startTime, tries, userInput, exc, out, result,
                    rawLine, validated, postCalls, failures, reads >>

\* the clock advances while the call runs or waits
Tick ==
    /\ pc \notin {"done", "returned"}
    /\ now < MaxClock
    /\ now' = now + 1
    /\ UNCHANGED << args, outside, wrap, pc, startTime, tries, userInput, exc, out, outcome,
                    result, obs >>

\* variant: the limit is looked at before the first prompt
Start_ChecksLimitFirst ==
    /\ pc = "start"
    /\ IF ~ArgsWellTyped
       THEN /\ pc' = "done"
            /\ outcome' = "PyInputPlusException"
            /\ exitLine' = BadArgLine
            /\ UNCHANGED << startTime, tries >>
       ELSE IF LimitReached(0, limit)
       THEN /\ pc' = "done"
            /\ outcome' = "RetryLimitException"
            /\ exitLine' = 147
            /\ startTime' = now
            /\ tries' = 0
       ELSE /\ startTime' = now
            /\ tries' = 0
            /\ pc' = "prompt"
            /\ UNCHANGED << outcome, exitLine >>
    /\ UNCHANGED << args, outside, wrap, now, userInput, exc, out, result, rawLine,
                    validated, checkTime, postCalls, failures, reads >>

\* variant: tries is not set back when a call starts
Start_KeepsTries ==
    /\ pc = "start"
    /\ IF ArgsWellTyped
       THEN /\ startTime' = now
            /\ tries' = tries
            /\ pc' = "prompt"
            /\ UNCHANGED << outcome, exitLine >>
       ELSE /\ pc' = "done"
            /\ outcome' = "PyInputPlusException"
            /\ exitLine' = BadArgLine
            /\ UNCHANGED << startTime, tries >>
    /\ UNCHANGED << args, outside, wrap, now, userInput, exc, out, result, rawLine,
                    validated, checkTime, postCalls, failures, reads >>

\* lines 102-118: the argument checks, then startTime and tries
Start ==
    /\ pc = "start"
    /\ IF ArgsWellTyped
       THEN /\ startTime' = now
            /\ tries' = 0
            /\ pc' = "prompt"
            /\ UNCHANGED << outcome, exitLine >>
       ELSE /\ pc' = "done"
            /\ outcome' = "PyInputPlusException"
            /\ exitLine' = BadArgLine
            /\ UNCHANGED << startTime, tries >>
    /\ UNCHANGED << args, outside, wrap, now, userInput, exc, out, result, rawLine,
                    validated, checkTime, postCalls, failures, reads >>

\* variant: print(prompt), with the newline print adds by default
Prompt_Newline ==
    /\ pc = "prompt"
    /\ tries < MaxTries
    /\ out' = Append(out, [text |-> prompt.s, nl |-> TRUE])
    /\ pc' = "input"
    /\ UNCHANGED << args, outside, wrap, now, startTime, tries, userInput, exc, outcome,
                    result, obs >>

\* line 122: print(prompt, end='')
Prompt ==
    /\ pc = "prompt"
    /\ tries < MaxTries
    /\ out' = Append(out, [text |-> prompt.s, nl |-> FALSE])
    /\ pc' = "input"
    /\ UNCHANGED << args, outside, wrap, now, startTime, tries, userInput, exc, outcome,
                    result, obs >>

\* variant: validationFunc's return value is dropped
Read_IgnoresReturn(line) ==
    /\ pc = "input"
    /\ LET applied == IF applyFunc.t # "None"
                      THEN CallTransform(applyFunc, Str(line)).value
                      ELSE Str(line)
           v == CallValidation(validationFunc, applied)
       IN /\ tries' = tries + 1
          /\ reads' = reads + 1
          /\ rawLine' = line
          /\ validated' = v
          /\ userInput' = applied
          /\ IF v.ok
             THEN /\ exc' = ""
                  /\ pc' = "check"
                  /\ UNCHANGED failures
             ELSE /\ exc' = v.msg
                  /\ pc' = "except"
                  /\ failures' = failures + 1
    /\ UNCHANGED << args, outside, wrap, now, startTime, out, outcome, result, checkTime,
                    exitLine, postCalls >>

\* variant: tries counts the failed validations only
Read_CountsFailuresOnly(line) ==
    /\ pc = "input"
    /\ LET applied == IF applyFunc.t # "None"
                      THEN CallTransform(applyFunc, Str(line)).value
                      ELSE Str(line)
           v == CallValidation(validationFunc, applied)
       IN /\ tries' = IF v.ok THEN tries ELSE tries + 1
          /\ reads' = reads + 1
          /\ rawLine' = line
          /\ validated' = v
          /\ IF v.ok
             THEN /\ userInput' = v.value
                  /\ exc' = ""
                  /\ pc' = "check"
                  /\ UNCHANGED failures
             ELSE /\ userInput' = applied
                  /\ exc' = v.msg
                  /\ pc' = "except"
                  /\ failures' = failures + 1
    /\ UNCHANGED << args, outside, wrap, now, startTime, out, outcome, result, checkTime,
                    exitLine, postCalls >>

\* variant: validationFunc is given the line as typed
Read_ValidatesRawLine(line) ==
    /\ pc = "input"
    /\ LET applied == IF applyFunc.t # "None"
                      THEN CallTransform(applyFunc, Str(line)).value
                      ELSE Str(line)
           v == CallValidation(validationFunc, Str(line))
       IN /\ tries' = tries + 1
          /\ reads' = reads + 1
          /\ rawLine' = line
          /\ validated' = v
          /\ IF v.ok
             THEN /\ userInput' = v.value
                  /\ exc' = ""
                  /\ pc' = "check"
                  /\ UNCHANGED failures
             ELSE /\ userInput' = applied
                  /\ exc' = v.msg
                  /\ pc' = "except"
                  /\ failures' = failures + 1
    /\ UNCHANGED << args, outside, wrap, now, startTime, out, outcome, result, checkTime,
                    exitLine, postCalls >>

\* lines 123-133: input() returns line; tries += 1; applyFunc; validationFunc
\* inside the try
Read(line) ==
    /\ pc = "input"
    /\ LET applied == IF applyFunc.t # "None"
                      THEN CallTransform(applyFunc, Str(line)).value
                      ELSE Str(line)
           v == CallValidation(validationFunc, applied)
       IN /\ tries' = tries + 1
          /\ reads' = reads + 1
          /\ rawLine' = line
          /\ validated' = v
          /\ IF v.ok
             THEN /\ userInput' = v.value
                  /\ exc' = ""
                  /\ pc' = "check"
                  /\ UNCHANGED failures
             ELSE /\ userInput' = applied
                  /\ exc' = v.msg
                  /\ pc' = "except"
                  /\ failures' = failures + 1
    /\ UNCHANGED << args, outside, wrap, now, startTime, out, outcome, result, checkTime,
                    exitLine, postCalls >>

\* variant: the exception is raised whether or not a default is set
GiveUpOrRetry_IgnoresDefault(limitOrTimeoutException, default_) ==
    IF limitOrTimeoutException # "None"
    THEN [pc |-> "done", outcome |-> limitOrTimeoutException,
          result |-> None, exitLine |-> 147]
    ELSE [pc |-> "prompt", outcome |-> "none", result |-> None, exitLine |-> 0]

\* variant: "if default:" in place of "if default is not None:"
GiveUpOrRetry_Truthy(limitOrTimeoutException, default_) ==
    IF limitOrTimeoutException # "None"
    THEN IF default_.t # "None" /\ default_.s # <<>>
         THEN [pc |-> "done", outcome |-> "return", result |-> default_,
               exitLine |-> 144]
         ELSE [pc |-> "done", outcome |-> limitOrTimeoutException,
               result |-> None, exitLine |-> 147]
    ELSE [pc |-> "prompt", outcome |-> "none", result |-> None, exitLine |-> 0]

\* variant: "continue" goes back to input() without the prompt
GiveUpOrRetry_NoReprompt(limitOrTimeoutException, default_) ==
    IF limitOrTimeoutException # "None"
    THEN IF default_.t # "None"
         THEN [pc |-> "done", outcome |-> "return", result |-> default_,
               exitLine |-> 144]
         ELSE [pc |-> "done", outcome |-> limitOrTimeoutException,
               result |-> None, exitLine |-> 147]
    ELSE [pc |-> "input", outcome |-> "none", result |-> None, exitLine |-> 0]

\* lines 141-150: what the except block does with the exception (or None)
\* that _checkLimitAndTimeout returned
GiveUpOrRetry(limitOrTimeoutException, default_) ==
    IF limitOrTimeoutException # "None"
    THEN IF default_.t # "None"
         THEN [pc |-> "done", outcome |-> "return", result |-> default_,
               exitLine |-> 144]
         ELSE [pc |-> "done", outcome |-> limitOrTimeoutException,
               result |-> None, exitLine |-> 147]
    ELSE [pc |-> "prompt", outcome |-> "none", result |-> None, exitLine |-> 0]

\* variant: the message is printed only when the user may try again
Except_MessageOnlyOnRetry ==
    /\ pc = "except"
    /\ LET e == _checkLimitAndTimeout(startTime, timeout, tries, limit, now)
           r == GiveUpOrRetry(e, default)
       IN /\ checkTime' = now
          /\ out' = IF r.pc = "prompt"
                    THEN Append(out, [text |-> exc, nl |-> TRUE])
                    ELSE out
          /\ pc' = r.pc
          /\ outcome' = r.outcome
          /\ result' = r.result
          /\ exitLine' = r.exitLine
    /\ UNCHANGED << args, outside, wrap, now, startTime, tries, userInput, exc, rawLine,
                    validated, postCalls, failures, reads >>

\* variant: the timeout is counted from the latest prompt
Except_RestartsClock ==
    /\ pc = "except"
    /\ LET e == _checkLimitAndTimeout(startTime, timeout, tries, limit, now)
           r == GiveUpOrRetry(e, default)
       IN /\ checkTime' = now
          /\ out' = Append(out, [text |-> exc, nl |-> TRUE])
          /\ pc' = r.pc
          /\ outcome' = r.outcome
          /\ result' = r.result
          /\ exitLine' = r.exitLine
          /\ startTime' = IF r.pc = "prompt" THEN now ELSE startTime
    /\ UNCHANGED << args, outside, wrap, now, tries, userInput, exc, rawLine,
                    validated, postCalls, failures, reads >>

\* lines 133-150: the except block
Except ==
    /\ pc = "except"
    /\ LET e == _checkLimitAndTimeout(startTime, timeout, tries, limit, now)
           r == GiveUpOrRetry(e, default)
       IN /\ checkTime' = now
          /\ out' = Append(out, [text |-> exc, nl |-> TRUE])
          /\ pc' = r.pc
          /\ outcome' = r.outcome
          /\ result' = r.result
          /\ exitLine' = r.exitLine
    /\ UNCHANGED << args, outside, wrap, now, startTime, tries, userInput, exc, rawLine,
                    validated, postCalls, failures, reads >>

\* variant: no timeout check after a successful validation
Finish_NoTimeoutCheck(timedOut, default_, postValidateApplyFunc_, userInput_) ==
    IF postValidateApplyFunc_.t # "None"
    THEN LET p == CallTransform(postValidateApplyFunc_, userInput_) IN
         [outcome |-> IF p.raised THEN "TypeError" ELSE "return",
          result |-> p.value, exitLine |-> 167, postCalls |-> 1]
    ELSE [outcome |-> "return", result |-> userInput_, exitLine |-> 169,
          postCalls |-> 0]

\* variant: the default goes through postValidateApplyFunc
Finish_PostOnDefault(timedOut, default_, postValidateApplyFunc_, userInput_) ==
    LET v == IF timedOut /\ default_.t # "None" THEN default_ ELSE userInput_
    IN
    IF timedOut /\ default_.t = "None"
    THEN [outcome |-> "TimeoutException", result |-> None,
          exitLine |-> 162, postCalls |-> 0]
    ELSE IF postValidateApplyFunc_.t # "None"
         THEN LET p == CallTransform(postValidateApplyFunc_, v) IN
              [outcome |-> IF p.raised THEN "TypeError" ELSE "return",
               result |-> p.value, exitLine |-> IF timedOut THEN 160 ELSE 167,
               postCalls |-> 1]
         ELSE [outcome |-> "return", result |-> v,
               exitLine |-> IF timedOut THEN 160 ELSE 169, postCalls |-> 0]

\* variant: "if default:" in place of "if default is not None:" at line 159
Finish_Truthy(timedOut, default_, postValidateApplyFunc_, userInput_) ==
    IF timedOut
    THEN IF default_.t # "None" /\ default_.s # <<>>
         THEN [outcome |-> "return", result |-> default_, exitLine |-> 160,
               postCalls |-> 0]
         ELSE [outcome |-> "TimeoutException", result |-> None,
               exitLine |-> 162, postCalls |-> 0]
    ELSE IF postValidateApplyFunc_.t # "None"
         THEN LET p == CallTransform(postValidateApplyFunc_, userInput_) IN
              [outcome |-> IF p.raised THEN "TypeError" ELSE "return",
               result |-> p.value, exitLine |-> 167, postCalls |-> 1]
         ELSE [outcome |-> "return", result |-> userInput_, exitLine |-> 169,
               postCalls |-> 0]

\* variant: postValidateApplyFunc is called before the timeout is checked
Finish_PostBeforeTimeoutCheck(timedOut, default_, postValidateApplyFunc_, userInput_) ==
    LET called == IF postValidateApplyFunc_.t # "None" THEN 1 ELSE 0
        p == IF postValidateApplyFunc_.t # "None"
             THEN CallTransform(postValidateApplyFunc_, userInput_)
             ELSE [raised |-> FALSE, value |-> userInput_]
    IN
    IF p.raised
    THEN [outcome |-> "TypeError", result |-> None, exitLine |-> 167,
          postCalls |-> called]
    ELSE IF timedOut
    THEN IF default_.t # "None"
         THEN [outcome |-> "return", result |-> default_, exitLine |-> 160,
               postCalls |-> called]
         ELSE [outcome |-> "TimeoutException", result |-> None,
               exitLine |-> 162, postCalls |-> called]
    ELSE [outcome |-> "return", result |-> p.value,
          exitLine |-> IF called = 1 THEN 167 ELSE 169, postCalls |-> called]

\* lines 155-169: after a successful validation, given whether the timeout
\* has passed: default, TimeoutException, or the (post-transformed) input
Finish(timedOut, default_, postValidateApplyFunc_, userInput_) ==
    IF timedOut
    THEN IF default_.t # "None"
         THEN [outcome |-> "return", result |-> default_, exitLine |-> 160,
               postCalls |-> 0]
         ELSE [outcome |-> "TimeoutException", result |-> None,
               exitLine |-> 162, postCalls |-> 0]
    ELSE IF postValidateApplyFunc_.t # "None"
         THEN LET p == CallTransform(postValidateApplyFunc_, userInput_) IN
              [outcome |-> IF p.raised THEN "TypeError" ELSE "return",
               result |-> p.value, exitLine |-> 167, postCalls |-> 1]
         ELSE [outcome |-> "return", result |-> userInput_, exitLine |-> 169,
               postCalls |-> 0]

\* variant: the limit is checked after a successful validation as well
Check_AlsoChecksLimit ==
    /\ pc = "check"
    /\ LET e == _checkLimitAndTimeout(startTime, timeout, tries, limit, now)
           g == GiveUpOrRetry(e, default)
           r == IF e = "RetryLimitException"
                THEN [outcome |-> g.outcome, result |-> g.result,
                      exitLine |-> g.exitLine, postCalls |-> 0]
                ELSE Finish(TimedOut(startTime, timeout, now), default,
                            postValidateApplyFunc, userInput)
       IN /\ checkTime' = now
          /\ pc' = "done"
          /\ outcome' = r.outcome
          /\ result' = r.result
          /\ exitLine' = r.exitLine
          /\ postCalls' = postCalls + r.postCalls
    /\ UNCHANGED << args, outside, wrap, now, startTime, tries, userInput, exc, out,
                    rawLine, validated, failures, reads >>

\* lines 152-169: the timeout check after a successful validation, and the
\* return
Check ==
    /\ pc = "check"
    /\ LET r == Finish(TimedOut(startTime, timeout, now), default,
                       postValidateApplyFunc, userInput)
       IN /\ checkTime' = now
          /\ pc' = "done"
          /\ outcome' = r.outcome
          /\ result' = r.result
          /\ exitLine' = r.exitLine
          /\ postCalls' = postCalls + r.postCalls
    /\ UNCHANGED << args, outside, wrap, now, startTime, tries, userInput, exc, out,
                    rawLine, validated, failures, reads >>

Next ==
    \/ Tick
    \/ Start
    \/ Prompt
    \/ \E line \in Lines : Read(line)
    \/ Except
    \/ Check

Spec == Init /\ [][Next]_vars

\* a direct call of _genericInput with timeout set and limit left at None
LiveInit ==
    /\ Init
    /\ timeout.t = "int"
    /\ limit = NoneNum

\* _genericInput under a user who answers every input() and an interpreter
\* that runs every statement it has reached
LiveSpec ==
    /\ LiveInit
    /\ [][Next]_vars
    /\ WF_vars(Start)
    /\ WF_vars(Prompt)
    /\ WF_vars(\E line \in Lines : Read(line))
    /\ WF_vars(Except)
    /\ WF_vars(Check)

----------------------------------------------------------------------------
(* The public functions that post-process what _genericInput returns:     *)
(* inputInt, inputFloat, inputMenu, inputYesNo, inputBool; and inputChoice *)

Wrappers ==
    { "inputInt", "inputFloat", "inputChoice", "inputMenu", "inputYesNo",
      "inputBool" }

\* the lines the user may type in a call of a public function
WrapperLines == { <<>>, <<" ", "a">>, <<"A">>, <<"2">>, <<"y">>, <<"T">> }

\* the default argument of a public function: None, 'a', '2', 'y'
WrapperDefaults == { None, Str(<<"a">>), Str(<<"2">>), Str(<<"y">>) }
WrapperTimeouts == { NoneNum } \cup { IntVal(n) : n \in 0 .. MaxTimeout }
WrapperLimits == { NoneNum } \cup { IntVal(n) : n \in 1 .. MaxLimit }

\* the validationFunc lambda each public function builds.  inputChoice
\* passes caseSensitive=False to pysv.validateChoice whatever its own
\* caseSensitive argument is; the others pass their argument on.
WrapperValidationFunc(wrapper_, caseSensitive_, numbered_) ==
    CASE wrapper_ = "inputInt" -> Func("int")
      [] wrapper_ = "inputFloat" -> Func("float")
      [] wrapper_ = "inputChoice" -> Func("choice")
      [] wrapper_ = "inputMenu" /\ numbered_ ->
           IF caseSensitive_ THEN Func("choiceNumberedCaseSensitive")
           ELSE Func("choiceNumbered")
      [] wrapper_ = "inputMenu" /\ ~numbered_ ->
           IF caseSensitive_ THEN Func("choiceCaseSensitive") ELSE Func("choice")
      [] wrapper_ = "inputYesNo" ->
           IF caseSensitive_ THEN Func("yesNoCaseSensitive") ELSE Func("yesNo")
      [] OTHER ->
           IF caseSensitive_ THEN Func("trueFalseCaseSensitive")
           ELSE Func("trueFalse")

\* a public function has been called and is about to call _genericInput:
\* inputChoice hands its postValidateApplyFunc on, the others keep it
WrapperInit ==
    /\ Alone
    /\ numbered = FALSE
    /\ wrapper \in Wrappers
    /\ caseSensitive \in BOOLEAN
    /\ wrapper \in {"inputInt", "inputFloat"} => ~caseSensitive
    /\ wrapperPostValidateApplyFunc \in { NoneFunc, Func("upper") }
    /\ prompt = [t |-> "str", s |-> "Prompt>"]
    /\ default \in WrapperDefaults
    /\ timeout \in WrapperTimeouts
    /\ limit \in WrapperLimits
    /\ applyFunc = NoneFunc
    /\ validationFunc = WrapperValidationFunc(wrapper, caseSensitive, numbered)
    /\ postValidateApplyFunc =
           IF wrapper = "inputChoice" THEN wrapperPostValidateApplyFunc
           ELSE NoneFunc
    /\ Entry

\* int(float(result)) / float(result) inside try ... except ValueError: pass
ToNumber(v, numType) ==
    IF v.t \in {"int", "float"} THEN [t |-> numType, s |-> v.s]
    ELSE IF v.t = "str" /\ Float(v.s).ok THEN [t |-> numType, s |-> Strip(v.s)]
    ELSE v

\* what a public function does with the value _genericInput returned,
\* before postValidateApplyFunc: [ok, value, msg] (ok = FALSE: an exception
\* of pysv is raised)
PostProcess(wrapper_, caseSensitive_, numbered_, v) ==
    CASE wrapper_ = "inputInt" -> [ok |-> TRUE, value |-> ToNumber(v, "int"), msg |-> ""]
      [] wrapper_ = "inputFloat" -> [ok |-> TRUE, value |-> ToNumber(v, "float"), msg |-> ""]
      [] wrapper_ = "inputMenu" /\ numbered_ ->
           ValidateChoiceNumbered(v, NumberedChoices, caseSensitive_)
      [] wrapper_ = "inputMenu" /\ ~numbered_ ->
           ValidateChoice(v, Choices, caseSensitive_)
      [] wrapper_ = "inputYesNo" -> ValidateYesNo(v, YesVal, NoVal, caseSensitive_)
      [] wrapper_ = "inputBool" -> ValidateBool(v, caseSensitive_)
      [] OTHER -> [ok |-> TRUE, value |-> v, msg |-> ""]

\* the end of a public function once _genericInput has returned v:
\* [outcome, result, postCalls]
WrapperFinish(wrapper_, caseSensitive_, numbered_, post_, v) ==
    LET r == PostProcess(wrapper_, caseSensitive_, numbered_, v) IN
    IF ~r.ok
    THEN [outcome |-> "ValidationException", result |-> None, postCalls |-> 0]
    ELSE IF wrapper_ = "inputChoice" \/ post_.t = "None"
    THEN [outcome |-> "return", result |-> r.value, postCalls |-> 0]
    ELSE LET p == CallTransform(post_, r.value) IN
         [outcome |-> IF p.raised THEN "TypeError" ELSE "return",
          result |-> p.value, postCalls |-> 1]

\* the public function's code after its call of _genericInput; an exception
\* of _genericInput passes through it
WrapperReturn ==
    /\ pc = "done"
    /\ wrapper # "none"
    /\ LET r == IF outcome = "return"
                THEN WrapperFinish(wrapper, caseSensitive, numbered,
                                   wrapperPostValidateApplyFunc, result)
                ELSE [outcome |-> outcome, result |-> None, postCalls |-> 0]
       IN /\ wrapperOutcome' = r.outcome
          /\ wrapperResult' = r.result
          /\ postCalls' = postCalls + r.postCalls
    /\ pc' = "returned"
    /\ UNCHANGED << args, outside, now, startTime, tries, userInput, exc, out, outcome,
                    result, rawLine, validated, checkTime, exitLine, failures,
                    reads >>

WrapperNext ==
    \/ Tick
    \/ Start
    \/ Prompt
    \/ \E line \in WrapperLines : Read(line)
    \/ Except
    \/ Check
    \/ WrapperReturn

WrapperSpec == WrapperInit /\ [][WrapperNext]_vars

\* the lines the user may type at a menu, the numbers of options included
MenuLines == { <<>>, <<" ", "a">>, <<"A">>, <<"2">>, <<"3">>, <<"y">> }

\* inputMenu has been called, with or without numbered options, and is
\* about to call _genericInput
MenuInit ==
    /\ Alone
    /\ wrapper = "inputMenu"
    /\ numbered \in BOOLEAN
    /\ caseSensitive \in BOOLEAN
    /\ wrapperPostValidateApplyFunc \in { NoneFunc, Func("upper") }
    /\ prompt = [t |-> "str", s |-> "Prompt>"]
    /\ default \in WrapperDefaults
    /\ timeout \in WrapperTimeouts
    /\ limit \in WrapperLimits
    /\ applyFunc = NoneFunc
    /\ validationFunc = WrapperValidationFunc(wrapper, caseSensitive, numbered)
    /\ postValidateApplyFunc = NoneFunc
    /\ Entry

MenuNext ==
    \/ Tick
    \/ Start
    \/ Prompt
    \/ \E line \in MenuLines : Read(line)
    \/ Except
    \/ Check
    \/ WrapperReturn

MenuSpec == MenuInit /\ [][MenuNext]_vars

----------------------------------------------------------------------------
(* A user and a clock fixed ahead: the k-th read returns script[k].line and *)
(* the check that follows it runs script[k].elapsed after startTime         *)

ScriptLines == { <<>>, <<"2">> }

Scripts ==
    { sc \in [1 .. MaxLimit -> [line : ScriptLines, elapsed : 0 .. MaxTimeout + 1]] :
        \A k \in 1 .. MaxLimit - 1 : sc[k].elapsed <= sc[k + 1].elapsed }

\* input() returns the line the script gives for this read
ScriptedRead ==
    /\ tries < Len(script)
    /\ Read(script[tries + 1].line)

\* the except block runs at the time the script gives for this check
ScriptedExcept ==
    /\ pc = "except"
    /\ now - startTime = script[tries].elapsed
    /\ Except

\* the code after the try runs at the time the script gives for this check
ScriptedCheck ==
    /\ pc = "check"
    /\ now - startTime = script[tries].elapsed
    /\ Check

----------------------------------------------------------------------------
(* Two calls of _genericInput one after the other, on the same arguments,   *)
(* the same lines and the same elapsed times                                *)

\* the first call starts at any time, and where startTime and tries will be
\* kept, earlier calls have left anything
RepeatInit ==
    /\ wrapper = "none"
    /\ caseSensitive = FALSE
    /\ numbered = FALSE
    /\ wrapperPostValidateApplyFunc = NoneFunc
    /\ prompt = [t |-> "str", s |-> "Prompt>"]
    /\ default \in { None, Str(<<"a">>) }
    /\ timeout \in { NoneNum } \cup { IntVal(n) : n \in 0 .. MaxTimeout }
    /\ limit \in { NoneNum } \cup { IntVal(n) : n \in 0 .. MaxLimit }
    /\ applyFunc = NoneFunc
    /\ validationFunc \in { Func("str"), Func("isEven") }
    /\ postValidateApplyFunc = NoneFunc
    /\ script \in Scripts
    /\ calls = 0
    /\ prev = NoPrev
    /\ legacy = LegacyEntry
    /\ now \in 0 .. 1
    /\ pc = "start"
    /\ startTime \in 0 .. MaxClock
    /\ tries \in 0 .. MaxTries
    /\ userInput = None
    /\ exc = ""
    /\ out = <<>>
    /\ outcome = "none"
    /\ result = None
    /\ wrapperOutcome = "none"
    /\ wrapperResult = None
    /\ rawLine = <<>>
    /\ validated = [ok |-> FALSE, value |-> None, msg |-> ""]
    /\ checkTime = 0
    /\ exitLine = 0
    /\ postCalls = 0
    /\ failures = 0
    /\ reads = 0

\* the caller keeps how the first call ended and calls _genericInput again:
\* the output and the result are the new call's, the clock runs on, and
\* what the first call left in startTime, tries, userInput and exc is there
\* until the new call assigns them
NewCall ==
    /\ pc = "done"
    /\ calls = 0
    /\ prev' = [outcome |-> outcome, result |-> result, out |-> out]
    /\ calls' = 1
    /\ pc' = "start"
    /\ out' = <<>>
    /\ outcome' = "none"
    /\ result' = None
    /\ rawLine' = <<>>
    /\ validated' = [ok |-> FALSE, value |-> None, msg |-> ""]
    /\ checkTime' = 0
    /\ exitLine' = 0
    /\ postCalls' = 0
    /\ failures' = 0
    /\ reads' = 0
    /\ UNCHANGED << args, wrap, now, startTime, tries, userInput, exc, script,
                    legacy >>

\* the clock of the second call runs past the range of the first
RepeatTick ==
    /\ calls = 1
    /\ pc # "done"
    /\ MaxClock <= now
    /\ now < 2 * MaxClock
    /\ now' = now + 1
    /\ UNCHANGED << args, outside, wrap, pc, startTime, tries, userInput, exc,
                    out, outcome, result, obs >>

RepeatNext ==
    \/ Tick
    \/ RepeatTick
    \/ Start
    \/ Prompt
    \/ ScriptedRead
    \/ ScriptedExcept
    \/ ScriptedCheck
    \/ NewCall

RepeatSpec == RepeatInit /\ [][RepeatNext]_vars

----------------------------------------------------------------------------
(* Version 0.1.0 (src/pyinputplus/__init__.py): _checkLimitAndTimeout and   *)
(* _genericInput                                                            *)

\* an exception object
Exception(name) == [t |-> "exception", s |-> << name >>]

\* _checkLimitAndTimeout of 0.1.0: default or an exception when the timeout
\* has passed or the limit is reached, None otherwise
Legacy_checkLimitAndTimeout(default_, startTime_, timeout_, tries_, limit_, time) ==
    IF timeout_.t # "None" /\ startTime_ + timeout_.n < time
    THEN IF default_.t # "None" THEN default_ ELSE Exception("TimeoutException")
    ELSE IF limit_.t # "None" /\ tries_ >= limit_.n
    THEN IF default_.t # "None" THEN default_
         ELSE Exception("RetryLimitException")
    ELSE None

\* the isinstance checks of 0.1.0: a class is no function
LegacyArgsWellTyped ==
    /\ prompt.t = "str"
    /\ default.t \in {"str", "None"}
    /\ timeout.t \in {"int", "float", "None"}
    /\ limit.t \in {"int", "None"}
    /\ validationFunc.t \in {"func"}
    /\ applyFunc.t \in {"func", "None"}
    /\ postValidateApplyFunc.t \in {"func", "None"}

\* the line of the raise statement of the first check of 0.1.0 that fails
LegacyBadArgLine ==
    IF prompt.t # "str" THEN 109
    ELSE IF default.t \notin {"str", "None"} THEN 111
    ELSE IF timeout.t \notin {"int", "float", "None"} THEN 113
    ELSE IF limit.t \notin {"int", "None"} THEN 115
    ELSE IF validationFunc.t \notin {"func"} THEN 117
    ELSE IF applyFunc.t \notin {"func", "None"} THEN 119
    ELSE 121

\* what the steps of version 0.1.0 leave alone
LegacyFrame ==
    UNCHANGED << args, wrap, now, pc, startTime, tries, userInput, exc, out,
                 outcome, result, obs, script, calls, prev >>

\* the clock advances while the call of 0.1.0 runs or waits
LegacyTick ==
    /\ legacy.pc # "done"
    /\ now < MaxClock
    /\ now' = now + 1
    /\ UNCHANGED << args, wrap, pc, startTime, tries, userInput, exc, out,
                    outcome, result, obs, outside >>

\* 0.1.0 lines 108-124: the argument checks, then startTime and tries
LegacyStart ==
    /\ legacy.pc = "start"
    /\ legacy' =
         IF LegacyArgsWellTyped
         THEN [legacy EXCEPT !.pc = "prompt", !.startTime = now, !.tries = 0]
         ELSE [legacy EXCEPT !.pc = "done",
                             !.outcome = "PyInputPlusException",
                             !.exitLine = LegacyBadArgLine]
    /\ LegacyFrame

\* 0.1.0 line 128: print(prompt, end='')
LegacyPrompt ==
    /\ legacy.pc = "prompt"
    /\ legacy.tries < MaxTries
    /\ legacy' = [legacy EXCEPT
                    !.pc = "input",
                    !.out = Append(@, [text |-> prompt.s, nl |-> FALSE])]
    /\ LegacyFrame

\* 0.1.0 lines 129-140: input() returns the script's line; tries += 1;
\* applyFunc; validationFunc inside the try
LegacyRead ==
    /\ legacy.pc = "input"
    /\ legacy.tries < Len(script)
    /\ LET line == script[legacy.tries + 1].line
           applied == IF applyFunc.t # "None"
                      THEN CallTransform(applyFunc, Str(line)).value
                      ELSE Str(line)
           v == CallValidation(validationFunc, applied)
       IN legacy' = [legacy EXCEPT
                       !.tries = @ + 1,
                       !.validated = v.ok,
                       !.checkResult = None,
                       !.userInput = IF v.ok THEN v.value ELSE applied,
                       !.exc = v.msg,
                       !.pc = IF v.ok THEN "return" ELSE "except"]
    /\ LegacyFrame

\* what the except block of 0.1.0 and the raise after it do with checkResult
LegacyGiveUpOrRetry(l, checkResult) ==
    IF checkResult.t = "str"
    THEN [l EXCEPT !.pc = "done", !.outcome = "return",
                   !.result = checkResult, !.exitLine = 144]
    ELSE IF checkResult.t = "None"
    THEN [l EXCEPT !.pc = "prompt",
                   !.out = Append(@, [text |-> l.exc, nl |-> TRUE])]
    ELSE [l EXCEPT !.pc = "done", !.outcome = checkResult.s[1],
                   !.exitLine = 149]

\* variant: the message is printed before checkResult is looked at
LegacyExcept_AlwaysPrints ==
    /\ legacy.pc = "except"
    /\ legacy.tries <= Len(script)
    /\ now - legacy.startTime = script[legacy.tries].elapsed
    /\ LET checkResult ==
             Legacy_checkLimitAndTimeout(default, legacy.startTime, timeout,
                                         legacy.tries, limit, now)
           l == [legacy EXCEPT
                   !.checkResult = checkResult,
                   !.checkTime = now,
                   !.out = Append(@, [text |-> legacy.exc, nl |-> TRUE])]
       IN legacy' = IF checkResult.t = "None" THEN [l EXCEPT !.pc = "prompt"]
                    ELSE LegacyGiveUpOrRetry(l, checkResult)
    /\ LegacyFrame

\* 0.1.0 lines 140-149: the except block at the time the script gives, and
\* the raise of the exception it got
LegacyExcept ==
    /\ legacy.pc = "except"
    /\ legacy.tries <= Len(script)
    /\ now - legacy.startTime = script[legacy.tries].elapsed
    /\ LET checkResult ==
             Legacy_checkLimitAndTimeout(default, legacy.startTime, timeout,
                                         legacy.tries, limit, now)
           l == [legacy EXCEPT !.checkResult = checkResult, !.checkTime = now]
       IN legacy' = LegacyGiveUpOrRetry(l, checkResult)
    /\ LegacyFrame

\* 0.1.0 lines 148-154 after a successful validation (checkResult is None):
\* the return statement, at the time the script gives
LegacyReturn ==
    /\ legacy.pc = "return"
    /\ legacy.tries <= Len(script)
    /\ now - legacy.startTime = script[legacy.tries].elapsed
    /\ LET p == CallTransform(postValidateApplyFunc, legacy.userInput) IN
       legacy' =
         IF postValidateApplyFunc.t # "None"
         THEN [legacy EXCEPT
                 !.pc = "done",
                 !.checkTime = now,
                 !.outcome = IF p.raised THEN "TypeError" ELSE "return",
                 !.result = p.value,
                 !.exitLine = 152]
         ELSE [legacy EXCEPT
                 !.pc = "done",
                 !.checkTime = now,
                 !.outcome = "return",
                 !.result = legacy.userInput,
                 !.exitLine = 154]
    /\ LegacyFrame

\* the arguments both versions are called with, a class as validationFunc
\* among them, and the script: a timeout or a limit or neither; without a
\* timeout no statement reads the clock for a decision, and the script keeps
\* it still
LegacyInit ==
    /\ wrapper = "none"
    /\ caseSensitive = FALSE
    /\ numbered = FALSE
    /\ wrapperPostValidateApplyFunc = NoneFunc
    /\ prompt = [t |-> "str", s |-> "Prompt>"]
    /\ default \in { None, Str(<<"a">>) }
    /\ timeout \in { NoneNum } \cup { IntVal(n) : n \in 0 .. MaxTimeout }
    /\ limit \in { NoneNum } \cup { IntVal(n) : n \in 0 .. MaxLimit }
    /\ applyFunc = NoneFunc
    /\ validationFunc \in { Func("str"), Func("isEven"), Class("class str") }
    /\ postValidateApplyFunc \in { NoneFunc, Func("upper") }
    /\ script \in Scripts
    /\ timeout = NoneNum \/ limit = NoneNum
    /\ timeout = NoneNum => \A k \in DOMAIN script : script[k].elapsed = 0
    /\ calls = 0
    /\ prev = NoPrev
    /\ legacy = LegacyEntry
    /\ Entry

\* how far a call has come: its statement within the iteration it is in
Rank(pc_, tries_) ==
    CASE pc_ = "start" -> 0
      [] pc_ = "prompt" -> 3 * tries_ + 1
      [] pc_ = "input" -> 3 * tries_ + 2
      [] pc_ \in {"except", "check", "return"} -> 3 * tries_
      [] OTHER -> 3 * MaxTries + 3

\* The two calls do not act on each other, so one schedule stands for all:
\* version 0.1.0 runs its next statement unless it is ahead of 0.2.3.
LegacyTurn == Rank(legacy.pc, legacy.tries) <= Rank(pc, tries)

\* both versions run side by side on the same arguments and script
LegacyNext ==
    \/ Tick
    \/ ~LegacyTurn /\ Start
    \/ ~LegacyTurn /\ Prompt
    \/ ~LegacyTurn /\ ScriptedRead
    \/ ~LegacyTurn /\ ScriptedExcept
    \/ ~LegacyTurn /\ ScriptedCheck
    \/ LegacyTick
    \/ LegacyTurn /\ LegacyStart
    \/ LegacyTurn /\ LegacyPrompt
    \/ LegacyTurn /\ LegacyRead
    \/ LegacyTurn /\ LegacyExcept
    \/ LegacyTurn /\ LegacyReturn

LegacySpec == LegacyInit /\ [][LegacyNext]_vars

----------------------------------------------------------------------------
(* Vocabulary of the properties *)

\* the call passed its argument checks and has ended
Done == pc = "done" /\ outcome # "PyInputPlusException"

\* the call ended by raising one of the two give-up exceptions
RaisedGiveUp == outcome \in {"TimeoutException", "RetryLimitException"}

\* the call ended at the final return statement (lines 166-169)
EndedAtFinalReturn == exitLine \in {167, 169}

\* the call ended by returning default (line 144 or line 160)
ReturnedDefault == outcome = "return" /\ exitLine \in {144, 160}

\* the clock reading of the last timeout check was more than timeout after
\* startTime
TimeoutElapsed == timeout.t # "None" /\ checkTime - startTime > timeout.n

\* the number of reads so far has reached limit
LimitHit == limit.t # "None" /\ tries >= limit.n

\* a give-up condition: the timeout elapsed, or the limit reached after a
\* failed validation
GiveUpCondition == TimeoutElapsed \/ (~validated.ok /\ LimitHit)

\* the prompts written so far
NumPrompts == Cardinality({ i \in DOMAIN out : ~out[i].nl })

\* the user's line of the last read after applyFunc
PreTransformed ==
    IF applyFunc.t # "None" THEN CallTransform(applyFunc, Str(rawLine)).value
    ELSE Str(rawLine)

\* what validationFunc returns for the last read
ValidatorOutput == CallValidation(validationFunc, PreTransformed).value

----------------------------------------------------------------------------
(* C1 *)

\* C1 (as claimed): a call with well-typed arguments that has ended either
\* returned a value, raised TimeoutException or raised RetryLimitException,
\* and it returned a value only after a successful validation or after a
\* give-up condition with a default set.
C1_ThreeOutcomes ==
    (Done /\ ArgsWellTyped) =>
        /\ outcome \in {"return", "TimeoutException", "RetryLimitException"}
        /\ outcome = "return" =>
               \/ validated.ok
               \/ (default.t # "None" /\ GiveUpCondition)

----------------------------------------------------------------------------
(* C2 *)

\* C2: with a default set, a call that has ended raised neither
\* TimeoutException nor RetryLimitException, and if a give-up condition held
\* at its last check (after a failed validation or after a late valid input)
\* it returned default.
C2_DefaultNeverRaises ==
    (Done /\ default.t # "None") =>
        /\ ~RaisedGiveUp
        /\ GiveUpCondition => (outcome = "return" /\ result = default)

\* a call with a default gave up after a failed validation, with both the
\* timeout elapsed and the limit reached, and returned the default
C2_Witness ==
    /\ Done
    /\ default.t # "None"
    /\ ~validated.ok
    /\ TimeoutElapsed
    /\ LimitHit
    /\ outcome = "return"
    /\ result = default

----------------------------------------------------------------------------
(* C3 *)

\* C3: with timeout = T, when the check after a successful validation reads
\* a clock more than T after startTime, the call does not end at the final
\* return statement and postValidateApplyFunc is not called: it returns
\* default if one is set and raises TimeoutException otherwise.
C3_LateValidInputLoses ==
    (Done /\ validated.ok /\ TimeoutElapsed) =>
        /\ ~EndedAtFinalReturn
        /\ postCalls = 0
        /\ IF default.t # "None"
           THEN outcome = "return" /\ result = default /\ exitLine = 160
           ELSE outcome = "TimeoutException"

\* a valid line was read with a non-negative timeout exceeded and no
\* default, and the call raised TimeoutException
C3_Witness ==
    /\ Done
    /\ validated.ok
    /\ timeout.t # "None"
    /\ timeout.n >= 0
    /\ checkTime - startTime > timeout.n
    /\ default.t = "None"
    /\ outcome = "TimeoutException"
    /\ exitLine = 162

----------------------------------------------------------------------------
(* C4 *)

\* C4: with limit = L >= 1, no timeout and no default, once L validations
\* have failed, exactly L reads have been made (tries = L, all of them
\* invalid), exactly L prompts have been written, and the call is in its
\* except block or has raised RetryLimitException.
C4_RetryLimitAfterLReads ==
    ( /\ limit.t # "None"
      /\ limit.n >= 1
      /\ timeout.t = "None"
      /\ default.t = "None"
      /\ failures >= limit.n ) =>
        /\ failures = limit.n
        /\ tries = limit.n
        /\ reads = limit.n
        /\ NumPrompts = limit.n
        /\ \/ pc = "except"
           \/ Done /\ outcome = "RetryLimitException"

\* limit = 2, two invalid lines, RetryLimitException raised
C4_Witness ==
    /\ Done
    /\ limit.t # "None"
    /\ limit.n = 2
    /\ timeout.t = "None"
    /\ default.t = "None"
    /\ failures = 2
    /\ reads = 2
    /\ outcome = "RetryLimitException"

----------------------------------------------------------------------------
(* C5 *)

\* C5: with limit = L >= 1, no timeout and default = D, once L validations
\* have failed, exactly L reads have been made and the call is in its
\* except block or has returned exactly D, raising nothing.
C5_RetryLimitReturnsDefault ==
    ( /\ limit.t # "None"
      /\ limit.n >= 1
      /\ timeout.t = "None"
      /\ default.t # "None"
      /\ failures >= limit.n ) =>
        /\ failures = limit.n
        /\ tries = limit.n
        /\ reads = limit.n
        /\ \/ pc = "except"
           \/ Done /\ outcome = "return" /\ result = default

\* limit = 2, the empty string as default, two invalid lines, '' returned
C5_Witness ==
    /\ Done
    /\ limit.t # "None"
    /\ limit.n = 2
    /\ timeout.t = "None"
    /\ default = Str(<<>>)
    /\ failures = 2
    /\ reads = 2
    /\ outcome = "return"
    /\ result = default

----------------------------------------------------------------------------
(* C6 *)

\* C6: whenever the call returns default (line 144 after a failed
\* validation, line 160 after a late valid input) the value returned is
\* default itself and postValidateApplyFunc was not called in the call.
C6_NoPostTransformOfDefault ==
    (Done /\ ReturnedDefault) => (result = default /\ postCalls = 0)

\* default 'a' was returned after a late valid input although
\* postValidateApplyFunc = str.upper would have changed it
C6_Witness ==
    /\ Done
    /\ exitLine = 160
    /\ validated.ok
    /\ postValidateApplyFunc.t # "None"
    /\ default = Str(<<"a">>)
    /\ result = Str(<<"a">>)
    /\ CallTransform(postValidateApplyFunc, default).value # default

----------------------------------------------------------------------------
(* C7 *)

\* C7: with limit = N+1 (N >= 0) and no timeout, a call that has passed its
\* last validation or ended after N failed validations made its last read
\* as read N+1 with a valid line: tries = N+1, and once ended it ended at
\* the final return statement, not by default and not by a give-up
\* exception.
C7_SuccessOnLastAllowedRead ==
    ( /\ limit.t # "None"
      /\ limit.n >= 1
      /\ timeout.t = "None"
      /\ failures = limit.n - 1
      /\ pc = "check" \/ Done ) =>
        /\ validated.ok
        /\ tries = limit.n
        /\ reads = limit.n
        /\ Done => (EndedAtFinalReturn /\ ~ReturnedDefault /\ ~RaisedGiveUp)

\* limit = 2 with a default set: one invalid line, then a valid one returned
C7_Witness ==
    /\ Done
    /\ limit.t # "None"
    /\ limit.n = 2
    /\ timeout.t = "None"
    /\ default.t # "None"
    /\ failures = 1
    /\ tries = 2
    /\ validated.ok
    /\ outcome = "return"
    /\ exitLine = 169

----------------------------------------------------------------------------
(* C8 *)

\* C8: with no default, a call that ended after a failed validation raised
\* TimeoutException if the timeout had elapsed at the check, even with
\* tries >= limit; it raised RetryLimitException only with limit set,
\* tries >= limit and the timeout not elapsed (or None); and no call raises
\* TimeoutException with timeout None.
C8_TimeoutBeforeLimit ==
    /\ (Done /\ default.t = "None" /\ ~validated.ok) =>
           /\ TimeoutElapsed => outcome = "TimeoutException"
           /\ outcome = "RetryLimitException" => (LimitHit /\ ~TimeoutElapsed)
    /\ (Done /\ timeout.t = "None") => outcome # "TimeoutException"

\* the timeout had elapsed and the limit was reached at the same check, and
\* TimeoutException was raised
C8_Witness ==
    /\ Done
    /\ default.t = "None"
    /\ ~validated.ok
    /\ timeout.t # "None"
    /\ timeout.n >= 0
    /\ checkTime - startTime > timeout.n
    /\ limit.t # "None"
    /\ limit.n >= 1
    /\ tries >= limit.n
    /\ outcome = "TimeoutException"

----------------------------------------------------------------------------
(* C9 *)

----------------------------------------------------------------------------
(* C10 *)

\* C10 (as claimed): the return value of validationFunc is ignored: a call
\* that returns at the final return statement returns the user's
\* pre-transformed line, through postValidateApplyFunc when that is set.
C10_ValidatorReturnIgnored ==
    (Done /\ EndedAtFinalReturn /\ outcome = "return") =>
        result = IF postValidateApplyFunc.t # "None"
                 THEN CallTransform(postValidateApplyFunc, PreTransformed).value
                 ELSE PreTransformed

----------------------------------------------------------------------------
(* Vocabulary of the output properties *)

\* an output event that is the prompt, written without a newline
IsPrompt(e) == e.text = prompt.s /\ ~e.nl

\* an output event that is a newline-terminated message
IsMessage(e) == e.nl

\* the failure messages written so far
NumMessages == Cardinality({ i \in DOMAIN out : out[i].nl })

\* an argument has a type the claim names as wrong
IllTypedArgument ==
    \/ prompt.t # "str"
    \/ default.t \notin {"str", "None"}
    \/ timeout.t \notin {"int", "float", "None"}
    \/ limit.t \notin {"int", "None"}
    \/ validationFunc.t # "func"
    \/ applyFunc.t \notin {"func", "None"}
    \/ postValidateApplyFunc.t \notin {"func", "None"}

----------------------------------------------------------------------------
(* C11 *)

\* C11: while a read is pending, and once a validation has succeeded, after
\* k failed validations the output is prompt, (message, prompt) k times:
\* 2k+1 events, the odd ones the prompt without a newline, the even ones a
\* newline-terminated message.
C11_MessageThenReprompt ==
    (pc \in {"input", "check"} \/ (Done /\ validated.ok)) =>
        /\ Len(out) = 2 * failures + 1
        /\ \A i \in DOMAIN out :
               IF i % 2 = 1 THEN IsPrompt(out[i])
               ELSE IsMessage(out[i]) /\ ~IsPrompt(out[i])

\* a call returned the input after two failed validations: five events
C11_Witness ==
    /\ Done
    /\ validated.ok
    /\ failures = 2
    /\ outcome = "return"
    /\ EndedAtFinalReturn
    /\ Len(out) = 5
    /\ out[2].text = "Blank values are not allowed."

----------------------------------------------------------------------------
(* C12 *)

\* C12: the failure messages written are as many as the failed validations
\* (one fewer while the except block has not yet printed), also when the call
\* gave up; a call that ended after a failed validation wrote that
\* validation's message last, and one that ended after a successful
\* validation wrote the prompt last.
C12_MessagePerFailure ==
    /\ NumMessages = IF pc = "except" THEN failures - 1 ELSE failures
    /\ (Done /\ ~validated.ok) =>
           /\ out[Len(out)].nl
           /\ out[Len(out)].text = validated.msg
    /\ (Done /\ validated.ok) => ~out[Len(out)].nl

\* a call gave up at the limit after two failed validations, with no
\* default, and wrote two messages
C12_Witness ==
    /\ Done
    /\ outcome = "RetryLimitException"
    /\ failures = 2
    /\ NumMessages = 2
    /\ out[Len(out)].nl

----------------------------------------------------------------------------
(* C13 *)

\* C13 (as claimed): a call with well-typed arguments that ended by raising
\* raised TimeoutException or RetryLimitException; no other exception, a
\* validator's included, reaches the caller.
C13_OnlyGiveUpExceptionsPropagate ==
    (pc = "done" /\ ~IllTypedArgument /\ outcome # "return") => RaisedGiveUp

----------------------------------------------------------------------------
(* C14 *)

\* C14: when an argument has a wrong type, nothing is ever written or read,
\* tries stays 0, no validator or transform is called, and the call, once
\* it has acted, has raised PyInputPlusException.
C14_IllTypedRaisesBeforeLoop ==
    IllTypedArgument =>
        /\ out = <<>>
        /\ reads = 0
        /\ tries = 0
        /\ failures = 0
        /\ postCalls = 0
        /\ pc \in {"start", "done"}
        /\ pc = "done" => (outcome = "PyInputPlusException" /\ exitLine = BadArgLine)

\* a float limit with every other argument well typed: PyInputPlusException
\* from the limit check
C14_Witness ==
    /\ pc = "done"
    /\ limit.t = "float"
    /\ exitLine = 109
    /\ outcome = "PyInputPlusException"
    /\ out = <<>>
    /\ reads = 0

----------------------------------------------------------------------------
(* C15 *)

\* C15: with default = '' a call that has ended raised neither give-up
\* exception, and if a give-up condition held at its last check it returned
\* '' at a return-default statement.
C15_EmptyStringDefault ==
    (Done /\ default = Str(<<>>)) =>
        /\ outcome \notin {"TimeoutException", "RetryLimitException"}
        /\ GiveUpCondition =>
               (ReturnedDefault /\ result = Str(<<>>))

\* default '' was returned for a valid input that came after the timeout
C15_Witness ==
    /\ Done
    /\ default = Str(<<>>)
    /\ validated.ok
    /\ TimeoutElapsed
    /\ timeout.n >= 0
    /\ exitLine = 160
    /\ outcome = "return"
    /\ result = Str(<<>>)

----------------------------------------------------------------------------
(* Vocabulary of the public functions' properties *)

\* the public function has ended (returned or raised)
Returned == pc = "returned"

\* _genericInput gave up and handed the default to the public function
DefaultSubstituted == Returned /\ ReturnedDefault

\* the line differs from every entry of choices, and from one of them only
\* by letter case
DiffersOnlyByCase(line, choices) ==
    /\ \A i \in 1 .. Len(choices) : line # choices[i]
    /\ \E i \in 1 .. Len(choices) : Upper(line) = Upper(choices[i])

----------------------------------------------------------------------------
(* C16 *)

\* C16 (as claimed): when inputMenu, inputYesNo or inputBool is called with a
\* default D and a give-up condition occurs, the call returns D and raises
\* no exception, whatever string D is.
C16_WrapperReturnsDefault ==
    (DefaultSubstituted /\ wrapper \in {"inputMenu", "inputYesNo", "inputBool"}) =>
        /\ wrapperOutcome = "return"
        /\ wrapperPostValidateApplyFunc.t = "None" => wrapperResult = default

----------------------------------------------------------------------------
(* C17 *)

\* C17 (as claimed): when inputInt or inputFloat is called with a default D
\* and no postValidateApplyFunc and a give-up condition occurs, the call
\* returns the string D itself, also when D parses as a number.
C17_NumericDefaultUnchanged ==
    ( /\ DefaultSubstituted
      /\ wrapper \in {"inputInt", "inputFloat"}
      /\ wrapperPostValidateApplyFunc.t = "None" ) =>
        wrapperOutcome = "return" /\ wrapperResult = default

----------------------------------------------------------------------------
(* C18 *)

\* C18 (as claimed): inputInt, inputFloat, inputMenu, inputYesNo and
\* inputBool never apply postValidateApplyFunc to a substituted default.
C18_WrapperNeverTransformsDefault ==
    ( /\ DefaultSubstituted
      /\ wrapper \in {"inputInt", "inputFloat", "inputMenu", "inputYesNo",
                      "inputBool"} ) =>
        postCalls = 0

----------------------------------------------------------------------------
(* C19 *)

\* C19 (as claimed): when inputChoice is called with caseSensitive=True, a
\* line that differs from every choice only by letter case fails
\* validation, and the call never returns on that line.
C19_CaseSensitiveChoiceRejects ==
    ( /\ wrapper = "inputChoice"
      /\ caseSensitive
      /\ DiffersOnlyByCase(rawLine, Choices) ) =>
        /\ ~validated.ok
        /\ ~(EndedAtFinalReturn /\ outcome = "return")

----------------------------------------------------------------------------
(* C20 *)

\* C20: while a read is pending one more prompt than reads has been written
\* and the last thing written is the prompt; in every other state the
\* prompts written are as many as the reads made.
C20_PromptBeforeEveryRead ==
    IF pc = "input"
    THEN NumPrompts = reads + 1 /\ IsPrompt(out[Len(out)])
    ELSE NumPrompts = reads

\* the third prompt is written and the third read is pending
C20_Witness ==
    /\ pc = "input"
    /\ reads = 2
    /\ NumPrompts = 3
    /\ Len(out) = 5

----------------------------------------------------------------------------
(* C21 *)

\* C21: tries is the number of reads made so far, in every state: it starts
\* at 0 and each read adds exactly 1, whether the line then validated
\* (reads - failures of them did) or not.
C21_TriesCountsReads ==
    /\ tries = reads
    /\ failures <= tries

\* two reads were made, the first failed and the second validated
C21_Witness ==
    /\ reads = 2
    /\ failures = 1
    /\ validated.ok
    /\ tries = 2

----------------------------------------------------------------------------
(* C22 *)

\* C22: a check made when the clock reads exactly startTime + timeout is no
\* timeout: the call does not raise TimeoutException then, returns default
\* only for the retry limit, and after a successful validation returns at
\* the final return statement.
C22_TimeoutIsStrict ==
    (Done /\ timeout.t # "None" /\ checkTime = startTime + timeout.n) =>
        /\ outcome # "TimeoutException"
        /\ ReturnedDefault => (~validated.ok /\ LimitHit)
        /\ validated.ok => EndedAtFinalReturn

\* timeout = 0, the clock has not advanced since startTime, and the valid
\* input was returned
C22_Witness ==
    /\ Done
    /\ timeout = IntVal(0)
    /\ checkTime = startTime
    /\ validated.ok
    /\ EndedAtFinalReturn
    /\ outcome = "return"

----------------------------------------------------------------------------
(* C23 *)

\* C23: startTime is assigned once, by the step that passes the argument
\* checks before the first prompt, and no later step (prompt, read, failed
\* validation, retry, return, clock tick) changes it.
C23_StartTimeRecordedOnce ==
    [][ /\ pc # "start" => startTime' = startTime
        /\ (pc = "start" /\ pc' = "prompt") => startTime' = now ]_vars

\* after a failed first attempt and a retry the second, valid, line lost to
\* the timeout counted from the first prompt
C23_Witness ==
    /\ Done
    /\ reads = 2
    /\ failures = 1
    /\ validated.ok
    /\ TimeoutElapsed
    /\ checkTime - startTime = timeout.n + 1

----------------------------------------------------------------------------
(* C24 *)

\* C24: a clock advance while the call waits in input() leaves it waiting,
\* and the call ends with TimeoutException or with default only from one
\* of the two checks that follow a validation, a read having completed for
\* every prompt written.
C24_TimeoutPolledAfterValidation ==
    [][ /\ (pc = "input" /\ now' # now) => (pc' = "input" /\ outcome' = "none")
        /\ ( /\ pc # "done"
             /\ pc' = "done"
             /\ outcome' = "TimeoutException" \/ exitLine' \in {144, 160} ) =>
               /\ pc \in {"except", "check"}
               /\ reads >= 1
               /\ reads = NumPrompts ]_vars

\* timeout = 0 and the call still waits in input() when the clock has run
\* to the end of its range
C24_Witness ==
    /\ pc = "input"
    /\ timeout = IntVal(0)
    /\ startTime = 0
    /\ now = MaxClock
    /\ outcome = "none"

----------------------------------------------------------------------------
(* C25 *)

\* C25: the verdict of every read is validationFunc's verdict on
\* applyFunc(line) (on the line itself only when applyFunc is None), and
\* postValidateApplyFunc has been called only if that verdict was success:
\* what postValidateApplyFunc returns has no part in the verdict.
C25_ValidatesPreTransformed ==
    reads > 0 =>
        /\ validated = CallValidation(validationFunc, PreTransformed)
        /\ pc \in {"check", "done"} /\ validated.ok => userInput = ValidatorOutput
        /\ postCalls > 0 => validated.ok

\* with applyFunc=str.upper and upper-case letters blocked the line ' a',
\* valid as typed, failed validation
C25_Witness ==
    /\ reads > 0
    /\ applyFunc = Func("upper")
    /\ validationFunc = Func("blockUpper")
    /\ rawLine = <<" ", "a">>
    /\ ~validated.ok
    /\ CallValidation(validationFunc, Str(rawLine)).ok

----------------------------------------------------------------------------
(* C26 *)

\* C26: postValidateApplyFunc is called at most once in a call, and a call
\* in which it was called has ended on its last read at line 167, after a
\* successful validation and a timeout check that passed; it is not called
\* when a valid input loses to the timeout.
C26_PostTransformAtMostOnce ==
    /\ postCalls <= 1
    /\ postCalls = 1 =>
           /\ Done
           /\ validated.ok
           /\ ~TimeoutElapsed
           /\ exitLine = 167
    /\ (Done /\ validated.ok /\ TimeoutElapsed) => postCalls = 0

\* after one failed attempt the second line validated in time and
\* postValidateApplyFunc was called once
C26_Witness ==
    /\ Done
    /\ reads = 2
    /\ failures = 1
    /\ postCalls = 1
    /\ timeout.t = "int"
    /\ outcome = "return"

----------------------------------------------------------------------------
(* C27 *)

\* C27: a call that ended on a line that validated did not raise
\* RetryLimitException, returned default only because the timeout had
\* elapsed, and otherwise ended at the final return statement, however
\* tries compares with limit.
C27_LimitOnlyAfterFailure ==
    (Done /\ validated.ok) =>
        /\ outcome # "RetryLimitException"
        /\ ReturnedDefault => TimeoutElapsed
        /\ ~TimeoutElapsed => EndedAtFinalReturn

\* limit <= 0 and a default set: the first line validated and was returned,
\* not the default
C27_Witness ==
    /\ Done
    /\ limit.t = "int"
    /\ limit.n <= 0
    /\ default = Str(<<"a">>)
    /\ validationFunc = Func("str")
    /\ rawLine = <<"2">>
    /\ tries = 1
    /\ outcome = "return"
    /\ exitLine = 169
    /\ result = Str(<<"2">>)

----------------------------------------------------------------------------
(* Vocabulary of the bounds on reads *)

\* max(L, 1)
AtLeastOne(n) == IF n > 1 THEN n ELSE 1

----------------------------------------------------------------------------
(* C28 *)

\* C28: a call that passed the argument checks has written a prompt and made
\* a read before it has any outcome, whatever limit and timeout are; and
\* with limit <= 0 every check sees the limit reached and decides as with
\* limit = 1, so that the call makes one read only.
C28_AtLeastOneRead ==
    /\ (ArgsWellTyped /\ outcome # "none") => (NumPrompts >= 1 /\ reads >= 1)
    /\ (pc = "except" /\ limit.t = "int" /\ limit.n <= 0) =>
           /\ tries >= 1
           /\ _checkLimitAndTimeout(startTime, timeout, tries, limit, now)
                  = _checkLimitAndTimeout(startTime, timeout, tries, IntVal(1), now)
    /\ (ArgsWellTyped /\ limit.t = "int" /\ limit.n <= 1) =>
           /\ reads <= 1
           /\ Done => (reads = 1 /\ NumPrompts = 1)

\* limit = -1 and timeout = -1: one prompt, one read, and then the timeout
C28_Witness ==
    /\ Done
    /\ limit = IntVal(-1)
    /\ timeout = IntVal(-1)
    /\ NumPrompts = 1
    /\ reads = 1
    /\ outcome = "TimeoutException"

----------------------------------------------------------------------------
(* C29 *)

\* C29: with limit = L the reads made and the prompts written never exceed
\* max(L, 1), whatever the lines and the clock; a call whose L-th read
\* has returned writes no further prompt.
C29_ReadsBoundedByLimit ==
    (ArgsWellTyped /\ limit.t = "int") =>
        /\ tries <= AtLeastOne(limit.n)
        /\ NumPrompts <= AtLeastOne(limit.n)
        /\ tries = AtLeastOne(limit.n) => pc \in {"except", "check", "done"}

\* limit = MaxLimit: the last allowed read failed and the call gave up
C29_Witness ==
    /\ Done
    /\ limit = IntVal(MaxLimit)
    /\ tries = MaxLimit
    /\ NumPrompts = MaxLimit
    /\ failures = MaxLimit
    /\ outcome = "RetryLimitException"

----------------------------------------------------------------------------
(* C30 *)

\* C30: with timeout set and limit None, once the clock has passed
\* startTime + timeout a pending read leads to the end of the call, with
\* TimeoutException or the default; and a validation, failed or passed,
\* whose check finds the timeout elapsed is the last step of the call.
C30_TimeoutEndsCall ==
    /\ [][ ( /\ pc \in {"except", "check"}
             /\ limit.t = "None"
             /\ TimedOut(startTime, timeout, now)
             /\ pc' # pc ) =>
               /\ pc' = "done"
               /\ outcome' = "TimeoutException" \/ exitLine' \in {144, 160} ]_vars
    /\ ( /\ pc = "input"
         /\ timeout.t # "None"
         /\ limit.t = "None"
         /\ TimedOut(startTime, timeout, now) )
           ~> (pc = "done" /\ (outcome = "TimeoutException" \/ ReturnedDefault))

\* limit None: the second line, invalid like the first, was read after the
\* timeout had elapsed and the call raised TimeoutException
C30_Witness ==
    /\ Done
    /\ limit = NoneNum
    /\ timeout.t = "int"
    /\ reads = 2
    /\ failures = 2
    /\ TimeoutElapsed
    /\ outcome = "TimeoutException"

----------------------------------------------------------------------------
(* C31 *)

\* C31: with limit None and timeout None the call never returns default and
\* never raises TimeoutException or RetryLimitException; it has ended only
\* on its first line that validated, every read before having failed; and
\* every failed validation is followed by a new prompt.
C31_NeverGivesUp ==
    /\ [](( /\ ArgsWellTyped
            /\ limit = NoneNum
            /\ timeout = NoneNum ) =>
              /\ ~RaisedGiveUp
              /\ ~ReturnedDefault
              /\ IF pc \in {"check", "done"}
                 THEN validated.ok /\ failures = reads - 1
                 ELSE failures = reads)
    /\ [][ ( /\ limit = NoneNum
             /\ timeout = NoneNum
             /\ pc = "except"
             /\ pc' # pc ) => pc' = "prompt" ]_vars

\* limit None, timeout None and a default set: two lines failed, the clock
\* ran to the end of its range, and the third line, valid, was returned
C31_Witness ==
    /\ Done
    /\ limit = NoneNum
    /\ timeout = NoneNum
    /\ default = Str(<<"a">>)
    /\ now = MaxClock
    /\ failures = 2
    /\ reads = 3
    /\ outcome = "return"
    /\ EndedAtFinalReturn

----------------------------------------------------------------------------
(* C33 *)

----------------------------------------------------------------------------
(* C34, C35: version 0.1.0 beside version 0.2.3 *)

\* the call of 0.1.0 has ended
LegacyDone == legacy.pc = "done"

\* 0.1.0 ended on a line that validated, looked at after the timeout
LegacyValidAfterTimeout ==
    /\ LegacyDone
    /\ LegacyArgsWellTyped
    /\ legacy.validated
    /\ timeout.t = "int"
    /\ legacy.checkTime - legacy.startTime > timeout.n

\* C34: in version 0.1.0, a valid line that arrives after the timeout has
\* passed is discarded: the call returns default when one is set and raises
\* TimeoutException otherwise, and never returns the valid input.
C34_LegacyDiscardsLateValidInput ==
    LegacyValidAfterTimeout =>
        IF default.t # "None"
        THEN legacy.outcome = "return" /\ legacy.result = default
        ELSE legacy.outcome = "TimeoutException"

\* 0.1.0 gave up in its except block, after a line that failed
LegacyGaveUp == LegacyDone /\ LegacyArgsWellTyped /\ ~legacy.validated

\* what 0.2.3 writes when 0.1.0 wrote legacy.out: the same lines, and the
\* failure message of the attempt on which the call gave up
LegacyOutPlusLastMessage ==
    IF LegacyGaveUp
    THEN Append(legacy.out, [text |-> legacy.exc, nl |-> TRUE])
    ELSE legacy.out

\* the two calls agree at their ends, up to the last failure message
SameEnd ==
    /\ pc = "done" => LegacyDone
    /\ LegacyDone => tries <= legacy.tries
    /\ (LegacyDone /\ pc = "done") =>
          /\ legacy.tries = tries
          /\ legacy.outcome = outcome
          /\ legacy.result = result
          /\ out = LegacyOutPlusLastMessage

\* C35 as amended: with timeout None and arguments that pass the checks of
\* both versions (validationFunc a function, not a class), 0.1.0 and 0.2.3
\* on the same arguments and the same lines end after the same number of
\* tries with the same returned value or the same kind of exception, and
\* write the same output except that 0.1.0 leaves out the failure message
\* of the attempt on which it gives up.
C35_SameOutcomeUpToLastMessage ==
    (timeout = NoneNum /\ LegacyArgsWellTyped) => SameEnd

\* limit 2, no default, two blank lines: both versions raised
\* RetryLimitException after two tries; 0.1.0 wrote one failure message and
\* 0.2.3 two
C35_Witness ==
    /\ timeout = NoneNum
    /\ limit = IntVal(2)
    /\ default = None
    /\ validationFunc = Func("str")
    /\ LegacyGaveUp
    /\ pc = "done"
    /\ tries = 2
    /\ legacy.tries = 2
    /\ outcome = "RetryLimitException"
    /\ legacy.outcome = "RetryLimitException"
    /\ Len(legacy.out) = 3
    /\ Len(out) = 4

\* C35 as stated: with timeout None the two versions agree on every
\* configuration
C35_SameOutcomeOnEveryConfiguration ==
    timeout = NoneNum => SameEnd

----------------------------------------------------------------------------
(* C32 *)

\* the second of the two calls has ended
SecondCallDone == calls = 1 /\ pc = "done"

\* C32: a call of _genericInput sets its own startTime and tries when it
\* starts (lines 117-118), so the second of two calls on the same
\* arguments, the same lines and the same elapsed times at each check ends
\* with the same outcome, the same returned value and the same output as
\* the first, whatever earlier calls left behind.
C32_CallsAreIndependent ==
    /\ [](SecondCallDone =>
            /\ outcome = prev.outcome
            /\ result = prev.result
            /\ out = prev.out)
    /\ [][ (pc = "start" /\ pc' = "prompt") =>
              (tries' = 0 /\ startTime' = now) ]_vars

\* the first call ended after a failure and a valid line with tries = 2; the
\* second call, started later with a timeout set, read the same two lines
\* one second after its own start and returned the same value
C32_Witness ==
    /\ SecondCallDone
    /\ timeout.t = "int"
    /\ limit = NoneNum
    /\ startTime >= 2
    /\ checkTime - startTime = 1
    /\ reads = 2
    /\ failures = 1
    /\ tries = 2
    /\ outcome = "return"
    /\ prev.outcome = "return"
    /\ Len(out) = 3

=============================================================================
